---- MODULE Spec2Model ----
(***************************************************************************)
(* The lock acquisition handler of mod/lock/v2 (acquire_handler.go): one   *)
(* HTTP request per call c, the goroutines it starts (ttlKeepAlive, the    *)
(* close-forwarding goroutine of watch), the channels between them, and    *)
(* the key space of one lock in the store the handler talks to.            *)
(***************************************************************************)
EXTENDS Integers, FiniteSets, Sequences, TLC

\* Number of acquire requests on the one key that are in progress at a time.
NumCalls == 2

\* Number of children the store creates under the key.
MaxIndex == 3

\* Number of requests the store may fail.
MaxFaults == 1

Calls == 1..NumCalls

\* Indices the store hands out.
Indices == 1..MaxIndex

\* The "value" form values of the requests: blank, and a client value.
Values == {"", "a"}

\* The "ttl" form values (seconds): 0 makes a node that never expires.
TTLs == {"0", "1"}

\* The "ttl" form values of requests whose nodes age and expire.
TimedTTLs == {"1", "2", "3"}

\* The clock's ticks in a second.
TicksPerSecond == 2

\* The "value" form values of requests around createNode's default: none, and
\* the default itself.
DefaultValues == {"", "-"}

\* The "ttl" and "timeout" form values of requests that may be malformed: not
\* a number, a negative number, a number; and for the timeout also none.
TtlForms == {"x", "-1", "1"}
TimeoutForms == {"", "x", "5"}

\* Error values of the handler; ErrNil is Go's nil error.
ErrNil == "nil"
ErrIndex == "acquire lock index error"
ErrLookup == "lock watch lookup error"
ErrWatchClosed == "lock watch closed"
ErrWatch == "lock watch error"
ErrInterrupted == "acquire lock error: user interrupted"
ErrTimeout == "invalid timeout"
ErrTTL == "invalid ttl"

VARIABLES
    nodes,          \* store: index -> [live, value, ttl, age], the children of keypath
    nextIndex,      \* store: the index the next AddChild gets
    pc,             \* per call: where the handler goroutine is
    value,          \* per call: the "value" parameter of the request
    ttl,            \* per call: acquireHandler's ttl, parsed from the form
    form,           \* per call: the "ttl" and "timeout" form values of its requests
    synced,         \* per call: the request has called h.client.SyncCluster()
    index,          \* per call: acquireHandler's index
    err,            \* per call: acquireHandler's err
    branch,         \* per call: "find" (watch(keypath, index, nil)) or "create" (createNode)
    closeChan,      \* per call: values buffered in the CloseNotify channel (0 or 1)
    closeFired,     \* per call: the client connection has gone away
    stopChan,       \* per call: number of close(stopChan) executed
    keeper,         \* per call: the ttlKeepAlive goroutine: "none", "run", "done"
    timer,          \* per call: ticks since ttlKeepAlive's time.After was armed
    forwarder,      \* per call: the goroutine of watch: "none", "select", "send", "done", "panic"
    stopWatchChan,  \* per call: "none", "open", "closed"
    prevIndex,      \* per call: watch's prevIndex
    watchFired,     \* per call: the store holds an event of keypath/prevIndex at or after waitIndex
    crashed,        \* a goroutine panicked: the process is gone
    faults,         \* the number of requests the store may still fail
    held            \* observer: the indices returned with success and not removed since

vars == <<nodes, nextIndex, pc, value, ttl, form, synced, index, err, branch,
          closeChan, closeFired, stopChan, keeper, timer, forwarder, stopWatchChan,
          prevIndex, watchFired, crashed, faults, held>>

storeVars == <<nodes, nextIndex, faults>>
callVars == <<pc, value, ttl, form, synced, index, err, branch, prevIndex>>
chanVars == <<closeChan, closeFired, stopChan, keeper, forwarder, stopWatchChan>>


----------------------------------------------------------------------------
(* The store's view of the children of keypath.                            *)

\* The indices of the live children: what Get(keypath, true, true) returns.
Live == {i \in Indices : nodes[i].live}

SetMin(S) == CHOOSE x \in S : \A y \in S : x <= y
SetMax(S) == CHOOSE x \in S : \A y \in S : x >= y

\* lockNodes.FindByValue: the first node of the sorted snapshot with the value
\* (0: none).
FindByValue(snapshot, v) ==
    LET hits == {i \in snapshot : nodes[i].value = v}
    IN  IF hits = {} THEN 0 ELSE SetMin(hits)

\* lockNodes.PrevIndex: the index before the given one in the sorted snapshot;
\* 0 when there is none, and 0 when the given index is not in the snapshot.
PrevIndex(snapshot, i) ==
    LET below == {j \in snapshot : j < i}
    IN  IF i \notin snapshot \/ below = {} THEN 0 ELSE SetMax(below)

\* uint64(ttl) of a Go int of small magnitude, as four 16-bit limbs, lowest
\* first: a negative ttl wraps to 2^64 + ttl.
Limb == 65536
Uint64(t) ==
    IF t >= 0
    THEN <<t % Limb, (t \div Limb) % Limb, 0, 0>>
    ELSE <<(Limb + t) % Limb, Limb - 1, Limb - 1, Limb - 1>>

\* strconv.Atoi on the form values of the model: the number and whether the
\* parse failed; a failed parse gives 0.
Atoi(s) ==
    CASE s = "0" -> [n |-> 0, err |-> FALSE]
      [] s = "1" -> [n |-> 1, err |-> FALSE]
      [] s = "2" -> [n |-> 2, err |-> FALSE]
      [] s = "3" -> [n |-> 3, err |-> FALSE]
      [] s = "5" -> [n |-> 5, err |-> FALSE]
      [] s = "-1" -> [n |-> 0 - 1, err |-> FALSE]
      [] OTHER -> [n |-> 0, err |-> TRUE]

\* The ttl the store gives a node that never expires.
Permanent == <<0, 0, 0, 0>>

\* A change of child i (create, update, delete, expire): every watch of
\* keypath/i gets an event.
Touch(i) ==
    watchFired' = [c \in Calls |->
        IF pc[c] = "watching" /\ prevIndex[c] = i THEN TRUE ELSE watchFired[c]]

NoNode == [live |-> FALSE, value |-> "", ttl |-> Permanent, age |-> 0]

\* Child i leaves the store (Delete, expiry): holders of index i lose it.
Remove(i) ==
    /\ nodes' = [nodes EXCEPT ![i] = NoNode]
    /\ held' = held \ {i}
    /\ Touch(i)

\* The outcomes of a request to the store: it succeeds (TRUE) or fails.
Oks == IF faults > 0 THEN BOOLEAN ELSE {TRUE}

\* A failed request uses up one of the failures.
Spend(ok) == faults' = IF ok THEN faults ELSE faults - 1

----------------------------------------------------------------------------
\* The state before the first request, whatever the requests are.
Idle ==
    /\ nodes = [i \in Indices |-> NoNode]
    /\ nextIndex = 1
    /\ pc = [c \in Calls |-> "idle"]
    /\ ttl = [c \in Calls |-> 0]
    /\ synced = [c \in Calls |-> FALSE]
    /\ index = [c \in Calls |-> 0]
    /\ err = [c \in Calls |-> ErrNil]
    /\ branch = [c \in Calls |-> "none"]
    /\ closeChan = [c \in Calls |-> 0]
    /\ closeFired = [c \in Calls |-> FALSE]
    /\ stopChan = [c \in Calls |-> 0]
    /\ keeper = [c \in Calls |-> "none"]
    /\ timer = [c \in Calls |-> 0]
    /\ forwarder = [c \in Calls |-> "none"]
    /\ stopWatchChan = [c \in Calls |-> "none"]
    /\ prevIndex = [c \in Calls |-> 0]
    /\ watchFired = [c \in Calls |-> FALSE]
    /\ crashed = FALSE
    /\ held = {}

\* Requests with a ttl of TTLs and no timeout; Init has a store that may fail
\* MaxFaults requests.
Start ==
    /\ Idle
    /\ value \in [Calls -> Values]
    /\ \E t \in TTLs : form = [c \in Calls |-> [ttl |-> t, timeout |-> ""]]

Init == Start /\ faults = MaxFaults

\* The same with a store that answers every request.
InitReliable == Start /\ faults = 0

\* Requests with a ttl of TimedTTLs and a store that answers every request.
InitTimed ==
    /\ Idle
    /\ value \in [Calls -> Values]
    /\ \E f \in [Calls -> TimedTTLs] :
        form = [c \in Calls |-> [ttl |-> f[c], timeout |-> ""]]
    /\ faults = 0

\* Requests whose value is any of DefaultValues, with the store that may fail.
InitDefault ==
    /\ Idle
    /\ value \in [Calls -> DefaultValues]
    /\ \E t \in TTLs : form = [c \in Calls |-> [ttl |-> t, timeout |-> ""]]
    /\ faults = MaxFaults

\* Requests of one client value whose form values are any of TtlForms and
\* TimeoutForms, with the store that may fail.
InitForms ==
    /\ Idle
    /\ value = [c \in Calls |-> "a"]
    /\ form \in [Calls -> [ttl : TtlForms, timeout : TimeoutForms]]
    /\ faults = MaxFaults

----------------------------------------------------------------------------
(* The store operations the handler calls. Each may fail (ok = FALSE) and  *)
(* then changes nothing.                                                   *)

\* Client.AddChild(keypath, value, ttl): a new child under the next index.
AddChild(v, t, ok) ==
    IF ok
    THEN /\ nodes' = [nodes EXCEPT ![nextIndex] = [live |-> TRUE, value |-> v, ttl |-> t, age |-> 0]]
         /\ nextIndex' = nextIndex + 1
         /\ Touch(nextIndex)
    ELSE UNCHANGED <<nodes, nextIndex, watchFired>>

\* Client.Update(key, value, ttl): succeeds only on a node that exists.
Update(i, v, t, ok) ==
    IF ok /\ i \in Live
    THEN /\ nodes' = [nodes EXCEPT ![i] = [live |-> TRUE, value |-> v, ttl |-> t, age |-> 0]]
         /\ Touch(i)
         /\ UNCHANGED nextIndex
    ELSE UNCHANGED <<nodes, nextIndex, watchFired>>

\* Client.Delete(key, false).
Delete(i, ok) ==
    IF ok /\ i \in Live
    THEN Remove(i) /\ UNCHANGED nextIndex
    ELSE UNCHANGED <<nodes, nextIndex, watchFired, held>>

----------------------------------------------------------------------------
(* acquireHandler and what it calls.                                       *)

\* createNode's value: "-" when the parameter is blank.
NodeValue(v) == IF v = "" THEN "-" ELSE v

\* findExistingNode: the index of the node with the value, 0 when the value is
\* blank, the Get fails or no node has it.
findExistingNode(v, ok) ==
    IF v # "" /\ ok THEN FindByValue(Live, v) ELSE 0

\* The entry of watch: stopWatchChan is made and the forwarding goroutine
\* started.
watchStart(c) ==
    /\ stopWatchChan' = [stopWatchChan EXCEPT ![c] = "open"]
    /\ forwarder' = [forwarder EXCEPT ![c] = "select"]

\* A handler that finishes the node after every watch, whatever the branch.
AfterWatchFinish(c, e) == "finish"

\* Where the handler goes when watch returns: createNode finishes the node; the
\* find branch goes to close(stopChan).
AfterWatch(c, e) ==
    IF branch[c] = "create"
    THEN "finish"
    ELSE "stop"

\* watch returns e: the deferred close(stopWatchChan) runs.
watchReturn(c, e) ==
    /\ err' = [err EXCEPT ![c] = e]
    /\ pc' = [pc EXCEPT ![c] = AfterWatch(c, e)]
    /\ stopWatchChan' = [stopWatchChan EXCEPT ![c] = "closed"]
    /\ prevIndex' = [prevIndex EXCEPT ![c] = 0]

\* The store's bound leaves room for the node of one more createNode.
Room == nextIndex + Cardinality({d \in Calls : pc[d] = "create"}) <= MaxIndex

\* acquireHandler's timeout: -1 when the form has none, else the number parsed,
\* and then one more. Nothing reads it.
Timeout(c) ==
    (IF form[c].timeout = "" THEN 0 - 1 ELSE Atoi(form[c].timeout).n) + 1

\* The form of request c parses: the timeout, when given, and the ttl.
FormParses(c) ==
    /\ form[c].timeout = "" \/ ~Atoi(form[c].timeout).err
    /\ ~Atoi(form[c].ttl).err

\* A request arrives whose timeout or ttl does not parse: after SyncCluster the
\* handler answers with the error and returns, before close(stopChan).
acquireHandlerInvalid(c) ==
    /\ ~crashed
    /\ pc[c] = "idle"
    /\ ~FormParses(c)
    /\ synced' = [synced EXCEPT ![c] = TRUE]
    /\ err' = [err EXCEPT ![c] =
            IF form[c].timeout # "" /\ Atoi(form[c].timeout).err
            THEN ErrTimeout
            ELSE ErrTTL]
    /\ pc' = [pc EXCEPT ![c] = "done"]
    /\ UNCHANGED <<storeVars, value, ttl, form, index, branch, prevIndex, chanVars, timer,
                   watchFired, crashed, held>>

\* A request arrives: SyncCluster, then timeout and ttl are parsed (one that
\* goes on to createNode only while there is Room); findExistingNode runs, and
\* on a hit watch is entered with a nil closeChan.
acquireHandler(c) ==
    /\ ~crashed
    /\ pc[c] = "idle"
    /\ FormParses(c)
    /\ synced' = [synced EXCEPT ![c] = TRUE]
    /\ ttl' = [ttl EXCEPT ![c] = Atoi(form[c].ttl).n]
    /\ \E ok \in Oks :
        /\ Spend(ok)
        /\ LET i == findExistingNode(value[c], ok)
           IN  /\ i > 0 \/ Room
               /\ IF i > 0
                  THEN /\ index' = [index EXCEPT ![c] = i]
                       /\ branch' = [branch EXCEPT ![c] = "find"]
                       /\ pc' = [pc EXCEPT ![c] = "get"]
                       /\ watchStart(c)
                  ELSE /\ branch' = [branch EXCEPT ![c] = "create"]
                       /\ pc' = [pc EXCEPT ![c] = "create"]
                       /\ UNCHANGED <<index, stopWatchChan, forwarder>>
    /\ UNCHANGED <<nodes, nextIndex, value, form, err, closeChan, closeFired, stopChan,
                   keeper, timer, prevIndex, watchFired, crashed, held>>

\* createNode up to the call of watch: AddChild, and on success the keep-alive
\* goroutine is started and watch entered with the request's closeChan.
createNode(c) ==
    /\ ~crashed
    /\ pc[c] = "create"
    /\ \E ok \in Oks :
        /\ Spend(ok)
        /\ AddChild(NodeValue(value[c]), Uint64(ttl[c]), ok)
        /\ IF ok
           THEN /\ index' = [index EXCEPT ![c] = nextIndex]
                /\ keeper' = [keeper EXCEPT ![c] = "run"]
                /\ pc' = [pc EXCEPT ![c] = "get"]
                /\ watchStart(c)
                /\ UNCHANGED err
           ELSE /\ err' = [err EXCEPT ![c] = ErrIndex]
                /\ pc' = [pc EXCEPT ![c] = "stop"]
                /\ UNCHANGED <<index, keeper, stopWatchChan, forwarder>>
    /\ UNCHANGED <<value, ttl, form, synced, branch, closeChan, closeFired, stopChan,
                   timer, prevIndex, crashed, held>>

\* One round of watch's loop up to the call of Client.Watch: the Get, PrevIndex,
\* and the return when the Get fails or nothing is before index. The store may
\* hold a change of keypath/prevIndex at or after waitIndex already (early).
watchGet(c) ==
    /\ ~crashed
    /\ pc[c] = "get"
    /\ \E ok \in Oks, early \in BOOLEAN :
        /\ Spend(ok)
        /\ IF ~ok
           THEN ~early /\ watchReturn(c, ErrLookup) /\ UNCHANGED watchFired
           ELSE LET p == PrevIndex(Live, index[c])
                IN  IF p = 0
                    THEN ~early /\ watchReturn(c, ErrNil) /\ UNCHANGED watchFired
                    ELSE /\ prevIndex' = [prevIndex EXCEPT ![c] = p]
                         /\ watchFired' = [watchFired EXCEPT ![c] = early]
                         /\ pc' = [pc EXCEPT ![c] = "watching"]
                         /\ UNCHANGED <<err, stopWatchChan>>
    /\ UNCHANGED <<nodes, nextIndex, value, ttl, form, synced, index, branch, closeChan, closeFired,
                   stopChan, keeper, timer, forwarder, crashed, held>>

\* Client.Watch returns an event of keypath/prevIndex: the loop goes round.
watchEvent(c) ==
    /\ ~crashed
    /\ pc[c] = "watching"
    /\ watchFired[c]
    /\ pc' = [pc EXCEPT ![c] = "get"]
    /\ prevIndex' = [prevIndex EXCEPT ![c] = 0]
    /\ watchFired' = [watchFired EXCEPT ![c] = FALSE]
    /\ UNCHANGED <<storeVars, value, ttl, form, synced, index, err, branch, chanVars, timer, crashed, held>>

\* Client.Watch receives from stopWatchChan, which the forwarding goroutine is
\* sending on: etcd.ErrWatchStoppedByUser.
watchStopped(c) ==
    /\ ~crashed
    /\ pc[c] = "watching"
    /\ forwarder[c] = "send"
    /\ forwarder' = [forwarder EXCEPT ![c] = "done"]
    /\ watchReturn(c, ErrWatchClosed)
    /\ watchFired' = [watchFired EXCEPT ![c] = FALSE]
    /\ UNCHANGED <<storeVars, value, ttl, form, synced, index, branch, closeChan,
                   closeFired, stopChan, keeper, timer, crashed, held>>

\* Client.Watch fails with another error.
watchError(c) ==
    /\ ~crashed
    /\ faults > 0
    /\ faults' = faults - 1
    /\ pc[c] = "watching"
    /\ watchReturn(c, ErrWatch)
    /\ watchFired' = [watchFired EXCEPT ![c] = FALSE]
    /\ UNCHANGED <<nodes, nextIndex, value, ttl, form, synced, index, branch, closeChan,
                   closeFired, stopChan, keeper, timer, forwarder, crashed, held>>

\* createNode after watch: when watch failed, the non-blocking receive from
\* closeChan; then Update when acquired, Delete otherwise, the result of either
\* call dropped.
createNodeFinish(c) ==
    /\ ~crashed
    /\ pc[c] = "finish"
    /\ LET interrupted == err[c] # ErrNil /\ closeChan[c] > 0
       IN  /\ closeChan' = [closeChan EXCEPT ![c] = IF interrupted THEN 0 ELSE @]
           /\ err' = [err EXCEPT ![c] = IF interrupted THEN ErrInterrupted ELSE @]
    /\ \E ok \in Oks :
        /\ Spend(ok)
        /\ IF err[c] = ErrNil
           THEN Update(index[c], NodeValue(value[c]), Uint64(ttl[c]), ok) /\ UNCHANGED held
           ELSE Delete(index[c], ok)
    /\ pc' = [pc EXCEPT ![c] = "stop"]
    /\ UNCHANGED <<value, ttl, form, synced, index, branch, prevIndex, closeFired,
                   stopChan, keeper, timer, forwarder, stopWatchChan, crashed>>

\* acquireHandler's end with close(stopChan) left to the success branch of the
\* response.
acquireHandlerDoneOnSuccess(c) ==
    /\ ~crashed
    /\ pc[c] = "stop"
    /\ stopChan' = [stopChan EXCEPT ![c] = IF err[c] = ErrNil THEN @ + 1 ELSE @]
    /\ pc' = [pc EXCEPT ![c] = "done"]
    /\ held' = IF err[c] = ErrNil THEN held \cup {index[c]} ELSE held
    /\ UNCHANGED <<storeVars, value, ttl, form, synced, index, err, branch, prevIndex, closeChan,
                   closeFired, keeper, timer, forwarder, stopWatchChan, watchFired, crashed>>

\* acquireHandler's end: close(stopChan) and the response, the index when err
\* is nil.
acquireHandlerDone(c) ==
    /\ ~crashed
    /\ pc[c] = "stop"
    /\ stopChan' = [stopChan EXCEPT ![c] = @ + 1]
    /\ pc' = [pc EXCEPT ![c] = "done"]
    /\ held' = IF err[c] = ErrNil THEN held \cup {index[c]} ELSE held
    /\ UNCHANGED <<storeVars, value, ttl, form, synced, index, err, branch, prevIndex, closeChan,
                   closeFired, keeper, timer, forwarder, stopWatchChan, watchFired, crashed>>

----------------------------------------------------------------------------
(* The goroutines.                                                         *)

\* A refresh once in the whole ttl.
PeriodWhole(t) == t

\* ttlKeepAlive's ttl / 2, in seconds: Go's division, which truncates to zero.
Period(t) == IF t >= 0 THEN t \div 2 ELSE 0 - ((0 - t) \div 2)

\* ttlKeepAlive's timer case: time.After(ttl / 2) is ready and the select
\* takes it, also when stopChan is closed as well.
ttlKeepAliveUpdate(c) ==
    /\ ~crashed
    /\ keeper[c] = "run"
    /\ timer[c] >= Period(ttl[c]) * TicksPerSecond
    /\ \E ok \in Oks :
        /\ Spend(ok)
        /\ Update(index[c], NodeValue(value[c]), Uint64(ttl[c]), ok)
    /\ timer' = [timer EXCEPT ![c] = 0]
    /\ UNCHANGED <<callVars, chanVars, crashed, held>>

\* ttlKeepAlive's stop case: stopChan is closed.
ttlKeepAliveStop(c) ==
    /\ ~crashed
    /\ keeper[c] = "run"
    /\ stopChan[c] > 0
    /\ keeper' = [keeper EXCEPT ![c] = "done"]
    /\ timer' = [timer EXCEPT ![c] = 0]
    /\ UNCHANGED <<storeVars, callVars, closeChan, closeFired, stopChan, forwarder,
                   stopWatchChan, watchFired, crashed, held>>

\* The forwarding goroutine's select takes the value of closeChan (never on a
\* nil closeChan) and goes on to send on stopWatchChan.
forwardClose(c) ==
    /\ ~crashed
    /\ forwarder[c] = "select"
    /\ branch[c] = "create"
    /\ closeChan[c] > 0
    /\ closeChan' = [closeChan EXCEPT ![c] = 0]
    /\ forwarder' = [forwarder EXCEPT ![c] = "send"]
    /\ UNCHANGED <<storeVars, callVars, closeFired, stopChan, keeper, timer, stopWatchChan,
                   watchFired, crashed, held>>

\* The forwarding goroutine's select receives from the closed stopWatchChan.
forwardDone(c) ==
    /\ ~crashed
    /\ forwarder[c] = "select"
    /\ stopWatchChan[c] = "closed"
    /\ forwarder' = [forwarder EXCEPT ![c] = "done"]
    /\ UNCHANGED <<storeVars, callVars, closeChan, closeFired, stopChan, keeper, timer,
                   stopWatchChan, watchFired, crashed, held>>

\* The forwarding goroutine sends on the closed stopWatchChan: the panic of a
\* goroutine ends the process, and with it every request and goroutine.
forwardPanic(c) ==
    /\ ~crashed
    /\ forwarder[c] = "send"
    /\ stopWatchChan[c] = "closed"
    /\ crashed' = TRUE
    /\ pc' = [d \in Calls |-> "gone"]
    /\ index' = [d \in Calls |-> 0]
    /\ err' = [d \in Calls |-> ErrNil]
    /\ branch' = [d \in Calls |-> "none"]
    /\ closeChan' = [d \in Calls |-> 0]
    /\ closeFired' = [d \in Calls |-> FALSE]
    /\ stopChan' = [d \in Calls |-> 0]
    /\ keeper' = [d \in Calls |-> "none"]
    /\ timer' = [d \in Calls |-> 0]
    /\ forwarder' = [d \in Calls |-> IF d = c THEN "panic" ELSE "none"]
    /\ stopWatchChan' = [d \in Calls |-> "none"]
    /\ prevIndex' = [d \in Calls |-> 0]
    /\ watchFired' = [d \in Calls |-> FALSE]
    /\ ttl' = [d \in Calls |-> 0]
    /\ synced' = [d \in Calls |-> FALSE]
    /\ UNCHANGED <<storeVars, value, form, held>>

----------------------------------------------------------------------------
(* The world around the handler.                                           *)

\* The client of request c goes away: CloseNotify's channel gets its one value.
CloseNotify(c) ==
    /\ ~crashed
    /\ pc[c] \notin {"idle", "done"}
    /\ ~closeFired[c]
    /\ closeFired' = [closeFired EXCEPT ![c] = TRUE]
    /\ closeChan' = [closeChan EXCEPT ![c] = 1]
    /\ UNCHANGED <<storeVars, callVars, stopChan, keeper, timer, forwarder, stopWatchChan,
                   watchFired, crashed, held>>

\* A goroutine of request c is still running.
Running(c) == keeper[c] = "run" \/ forwarder[c] \in {"select", "send"}

\* The request of c is over and so are its goroutines: c takes the next
\* request, with a value of its own.
NextRequest(c) ==
    /\ ~crashed
    /\ pc[c] = "done"
    /\ ~Running(c)
    /\ pc' = [pc EXCEPT ![c] = "idle"]
    /\ \E v \in Values : value' = [value EXCEPT ![c] = v]
    /\ index' = [index EXCEPT ![c] = 0]
    /\ err' = [err EXCEPT ![c] = ErrNil]
    /\ branch' = [branch EXCEPT ![c] = "none"]
    /\ closeChan' = [closeChan EXCEPT ![c] = 0]
    /\ closeFired' = [closeFired EXCEPT ![c] = FALSE]
    /\ stopChan' = [stopChan EXCEPT ![c] = 0]
    /\ keeper' = [keeper EXCEPT ![c] = "none"]
    /\ timer' = [timer EXCEPT ![c] = 0]
    /\ forwarder' = [forwarder EXCEPT ![c] = "none"]
    /\ stopWatchChan' = [stopWatchChan EXCEPT ![c] = "none"]
    /\ ttl' = [ttl EXCEPT ![c] = 0]
    /\ synced' = [synced EXCEPT ![c] = FALSE]
    /\ UNCHANGED <<storeVars, form, prevIndex, watchFired, crashed, held>>

\* The store expires a node whose ttl ran out: one that no running ttlKeepAlive
\* refreshes.
Expire(i) ==
    /\ i \in Live
    /\ nodes[i].ttl # Permanent
    /\ \A c \in Calls : ~(keeper[c] = "run" /\ index[c] = i)
    /\ Remove(i)
    /\ UNCHANGED <<nextIndex, faults, callVars, chanVars, timer, crashed>>

\* The ttl of node n has run out: age ticks have passed since the AddChild or
\* Update that set it.
Expired(n) ==
    /\ n.ttl # Permanent
    /\ n.ttl[3] = 0 /\ n.ttl[4] = 0
    /\ n.age >= (n.ttl[1] + Limb * n.ttl[2]) * TicksPerSecond

\* The store expires a node whose ttl has run out on the clock.
ExpireAt(i) ==
    /\ i \in Live
    /\ Expired(nodes[i])
    /\ Remove(i)
    /\ UNCHANGED <<nextIndex, faults, callVars, chanVars, timer, crashed>>

\* A ttlKeepAlive whose time.After has fired and that has not yet run.
Due(c) ==
    /\ keeper[c] = "run"
    /\ timer[c] >= Period(ttl[c]) * TicksPerSecond
    /\ timer[c] >= 1

\* The clock ticks: every node with a ttl ages and every armed timer runs on.
\* A ttlKeepAlive that is due runs before the next tick, and so does the
\* expiry of a node.
Tick ==
    /\ ~crashed
    /\ \A c \in Calls : ~Due(c)
    /\ \A i \in Live : ~Expired(nodes[i])
    /\ \E i \in Live : nodes[i].ttl # Permanent
    /\ nodes' = [i \in Indices |->
            IF nodes[i].live /\ nodes[i].ttl # Permanent
            THEN [nodes[i] EXCEPT !.age = @ + 1]
            ELSE nodes[i]]
    /\ timer' = [c \in Calls |-> IF keeper[c] = "run" THEN timer[c] + 1 ELSE timer[c]]
    /\ UNCHANGED <<nextIndex, faults, callVars, chanVars, watchFired, crashed, held>>

\* The holder of index i releases the lock: a release request deletes node i.
Release(i) ==
    /\ i \in Live
    /\ i \in held
    /\ Remove(i)
    /\ UNCHANGED <<nextIndex, faults, callVars, chanVars, timer, crashed>>

----------------------------------------------------------------------------
Next ==
    \/ \E c \in Calls : acquireHandler(c)
    \/ \E c \in Calls : createNode(c)
    \/ \E c \in Calls : watchGet(c)
    \/ \E c \in Calls : watchEvent(c)
    \/ \E c \in Calls : watchStopped(c)
    \/ \E c \in Calls : watchError(c)
    \/ \E c \in Calls : createNodeFinish(c)
    \/ \E c \in Calls : acquireHandlerDone(c)
    \/ \E c \in Calls : ttlKeepAliveUpdate(c)
    \/ \E c \in Calls : ttlKeepAliveStop(c)
    \/ \E c \in Calls : forwardClose(c)
    \/ \E c \in Calls : forwardDone(c)
    \/ \E c \in Calls : forwardPanic(c)
    \/ \E c \in Calls : CloseNotify(c)
    \/ \E c \in Calls : NextRequest(c)
    \/ \E i \in Indices : Expire(i)
    \/ \E i \in Indices : Release(i)

Spec == Init /\ [][Next]_vars

\* The steps of the handler goroutine of c, of its forwarding goroutine, and
\* Next without the failure of Client.Watch, for a store that never fails.
HandlerStep(c) ==
    \/ createNode(c)
    \/ watchGet(c)
    \/ watchEvent(c)
    \/ createNodeFinish(c)
    \/ acquireHandlerDone(c)

ForwarderStep(c) == forwardClose(c) \/ forwardDone(c) \/ forwardPanic(c)

NextReliable ==
    \/ \E c \in Calls : acquireHandler(c)
    \/ \E c \in Calls : HandlerStep(c)
    \/ \E c \in Calls : watchStopped(c)
    \/ \E c \in Calls : ttlKeepAliveUpdate(c)
    \/ \E c \in Calls : ttlKeepAliveStop(c)
    \/ \E c \in Calls : ForwarderStep(c)
    \/ \E c \in Calls : CloseNotify(c)
    \/ \E c \in Calls : NextRequest(c)
    \/ \E i \in Indices : Expire(i)
    \/ \E i \in Indices : Release(i)

\* The Go scheduler runs every goroutine that can run, and a select takes each
\* ready case sooner or later; clients and the store's clock are not forced.
Fairness ==
    \A c \in Calls :
        /\ WF_vars(HandlerStep(c))
        /\ SF_vars(watchStopped(c))
        /\ WF_vars(ForwarderStep(c))
        /\ WF_vars(ttlKeepAliveStop(c))

FairSpec == InitReliable /\ [][NextReliable]_vars /\ Fairness

\* The requests of Init alone, none after them, with the store that may fail.
NextOnce ==
    \/ \E c \in Calls : acquireHandler(c)
    \/ \E c \in Calls : HandlerStep(c)
    \/ \E c \in Calls : watchStopped(c)
    \/ \E c \in Calls : watchError(c)
    \/ \E c \in Calls : ttlKeepAliveUpdate(c)
    \/ \E c \in Calls : ttlKeepAliveStop(c)
    \/ \E c \in Calls : ForwarderStep(c)
    \/ \E c \in Calls : CloseNotify(c)
    \/ \E i \in Indices : Expire(i)
    \/ \E i \in Indices : Release(i)

FairOnceSpec == Init /\ [][NextOnce]_vars /\ Fairness

\* The requests of InitTimed on the clock, with a store that answers every
\* request and expires a node when its ttl has run out.
NextTimed ==
    \/ \E c \in Calls : acquireHandler(c)
    \/ \E c \in Calls : HandlerStep(c)
    \/ \E c \in Calls : watchStopped(c)
    \/ \E c \in Calls : ttlKeepAliveUpdate(c)
    \/ \E c \in Calls : ttlKeepAliveStop(c)
    \/ \E c \in Calls : ForwarderStep(c)
    \/ \E c \in Calls : CloseNotify(c)
    \/ \E i \in Indices : ExpireAt(i)
    \/ \E i \in Indices : Release(i)
    \/ Tick

TimedSpec == InitTimed /\ [][NextTimed]_vars

DefaultSpec == InitDefault /\ [][NextOnce]_vars

\* The requests of InitForms, those with malformed form values among them.
NextForms ==
    \/ \E c \in Calls : acquireHandlerInvalid(c)
    \/ NextOnce

FormSpec == InitForms /\ [][NextForms]_vars /\ Fairness

----------------------------------------------------------------------------
(* The claims.                                                             *)

\* C1 (mutual exclusion): there are never two requests that were answered with
\* different indices, both with success, neither of whose indices was released
\* (removed from the store) since.
MutualExclusion == Cardinality(held) <= 1

\* watch returns nil for index[c] in this step: the snapshot of its Get has
\* nothing before the index. From here the handler makes no further check, and
\* the request is answered with the index.
WatchAcquires(c) ==
    pc[c] = "get" /\ pc'[c] \in {"finish", "stop"} /\ err'[c] = ErrNil

\* C2 (success means live and minimum): whenever watch decides the success a
\* request is answered with, for index i, node i is live under the key and i
\* is the least index of the live nodes, on the creation path and on the reuse
\* path.
SuccessIsLiveMinimum ==
    [][\A c \in Calls :
        WatchAcquires(c) => index[c] \in Live /\ \A j \in Live : index[c] <= j]_vars

\* C3 (FIFO): a request with index i2 never gets its success while a node with
\* a smaller index i1 is live.
FifoOrder ==
    [][\A c \in Calls :
        WatchAcquires(c) => ~(\E j \in Live : j < index[c])]_vars

\* The request of c arrives in this step.
Arrives(c) == pc[c] = "idle" /\ pc'[c] \in {"create", "get"}

\* C4 (idempotent retry): a request with a non-blank value that arrives while a
\* live node carries that value does not go on to createNode (no AddChild), and
\* resolves to the index of that node.
IdempotentRetry ==
    [][\A c \in Calls :
        (Arrives(c) /\ value[c] # "" /\ FindByValue(Live, value[c]) > 0)
            => pc'[c] = "get" /\ index'[c] = FindByValue(Live, value[c])]_vars

\* The request of c, which made its node and then failed in watch, is answered
\* in this step.
ReturnsFailedCreate(c) ==
    /\ pc[c] = "stop" /\ pc'[c] = "done"
    /\ branch[c] = "create" /\ index[c] > 0 /\ err[c] # ErrNil

\* C5 (cleanup on failure): when a request that made its own node is answered
\* with an error after its watch failed, the node is not in the store, and a
\* node that left the store is never live again.
CleanupOnFailure ==
    /\ [][\A c \in Calls : ReturnsFailedCreate(c) => index[c] \notin Live]_vars
    /\ [][\A i \in Indices : (i < nextIndex /\ i \notin Live) => i \notin Live']_vars

\* C7 (interrupted is reported distinctly): a request that made its node never
\* leaves createNode with the error of a watch stopped by the close signal;
\* the error is then "user interrupted".
InterruptedIsDistinct ==
    \A c \in Calls :
        (branch[c] = "create" /\ pc[c] \in {"stop", "done"}) => err[c] # ErrWatchClosed

\* C9 (no renewal after stop): once stopChan is closed, ttlKeepAlive issues no
\* Update.
NoRenewalAfterStop ==
    [][\A c \in Calls : stopChan[c] > 0 => ~ttlKeepAliveUpdate(c)]_vars

\* The handler of c is inside watch.
InWatch(c) == pc[c] \in {"get", "watching"}

\* C6 (cancellation unblocks the wait): when the client of a request that is
\* blocked in Client.Watch on its predecessor goes away, watch returns sooner
\* or later, on the creation path and on the reuse path.
CancelUnblocks ==
    \A c \in Calls : (pc[c] = "watching" /\ closeFired[c]) ~> ~InWatch(c)

\* C8 (the keep-alive is stopped once on every way out): stopChan is closed at
\* most once, it is closed when the request of a handler that started
\* ttlKeepAlive is answered, whatever the answer, and the goroutine then ends.
KeeperStopped ==
    /\ [](\A c \in Calls :
            /\ stopChan[c] <= 1
            /\ (pc[c] = "done" /\ keeper[c] # "none") => stopChan[c] = 1)
    /\ \A c \in Calls : (pc[c] = "done" /\ keeper[c] = "run") ~> (keeper[c] # "run")

\* A request that failed in watch has been answered and its ttlKeepAlive has
\* ended.
KeeperStoppedWitness ==
    \E c \in Calls :
        /\ pc[c] = "done" /\ keeper[c] = "done" /\ stopChan[c] = 1
        /\ err[c] \in {ErrLookup, ErrWatch}

\* C10 (progress of a waiter): a request inside watch whose client has not
\* gone away and whose index has no live node before it gets its success
\* sooner or later, the store answering every request.
WaiterProgress ==
    \A c \in Calls :
        (InWatch(c) /\ faults = 0 /\ ~closeFired[c] /\ \A j \in Live : index[c] <= j)
            ~> (closeFired[c] \/ (pc[c] \in {"finish", "stop", "done"} /\ err[c] = ErrNil))

----------------------------------------------------------------------------
\* C12 (final refresh): the success a request is answered with becomes final
\* only by createNode's last step, the Update of the node with the request's
\* value and ttl, on the creation path and on the reuse path.
FinalRefreshOnSuccess ==
    [][\A c \in Calls :
        (pc[c] # "stop" /\ pc'[c] = "stop" /\ err'[c] = ErrNil)
            => createNodeFinish(c)]_vars

\* A step of request c: of its handler or of one of its goroutines.
OwnStep(c) ==
    \/ HandlerStep(c)
    \/ watchStopped(c)
    \/ watchError(c)
    \/ ttlKeepAliveUpdate(c)
    \/ ttlKeepAliveStop(c)
    \/ ForwarderStep(c)

\* C16 (reuse path only reads): no step of a request that found an existing
\* node is an AddChild, an Update or a Delete, and each leaves the nodes under
\* the key as they are; so also when the request fails.
ReusePathOnlyReads ==
    [][\A c \in Calls :
        (branch[c] = "find" /\ OwnStep(c))
            => /\ UNCHANGED <<nodes, nextIndex>>
               /\ pc[c] \notin {"create", "finish"}
               /\ keeper[c] # "run"]_vars

\* A request that found an existing node has been answered with an error.
ReusePathFailed ==
    \E c \in Calls : branch[c] = "find" /\ pc[c] = "done" /\ err[c] # ErrNil

\* C17 (immediate predecessor): a round of watch whose Get succeeded blocks on
\* the largest live index below the request's own, and returns success exactly
\* when no live index is below it, whether or not its own node is live.
WatchesImmediatePredecessor ==
    [][\A c \in Calls :
        LET below == {j \in Live : j < index[c]}
        IN  /\ (pc[c] = "get" /\ pc'[c] = "watching")
                    => below # {} /\ prevIndex'[c] = SetMax(below)
            /\ WatchAcquires(c) => below = {}]_vars

\* C18 (forwarder ends cleanly): stopWatchChan is never closed while the
\* forwarding goroutine is about to send on it.
ForwarderEndsCleanly ==
    \A c \in Calls : ~(forwarder[c] = "send" /\ stopWatchChan[c] = "closed")

\* C19 (one node per value): no two live nodes carry the same value given by a
\* client.
OneEntryPerValue ==
    \A i, j \in Live :
        (nodes[i].value = nodes[j].value /\ nodes[i].value # NodeValue("")) => i = j

\* C11 (timeout bounds the wait): a request given a timeout is answered sooner
\* or later, whatever the node before its own and its client do, unless the
\* process has ended.
TimeoutReturns ==
    \A c \in Calls :
        (form[c].timeout # "" /\ pc[c] # "idle") ~> (pc[c] = "done" \/ crashed)

\* C14 (malformed parameters change nothing): a request whose ttl or timeout
\* does not parse is answered with the error, no node is created, updated or
\* deleted, no ttlKeepAlive and no watch is started, and the store's cluster has
\* not been called.
InvalidChangesNothing ==
    [][\A c \in Calls :
        (pc[c] = "idle" /\ ~FormParses(c) /\ pc'[c] \notin {"idle", "gone"})
            => /\ pc'[c] = "done" /\ err'[c] \in {ErrTimeout, ErrTTL}
               /\ UNCHANGED <<nodes, nextIndex, keeper, forwarder, stopWatchChan>>
               /\ ~synced'[c]]_vars

\* C15 (no negative ttl): every node has a ttl in the range of the
\* non-negative numbers of a Go int, never one converted from a negative
\* number.
NonNegativeTtl ==
    \A i \in Live : nodes[i].ttl[4] < Limb \div 2

\* C20 (reuse recovers the own reservation only): a request that resolves to an
\* existing node resolves to one created by a request with the same value; so
\* never to the node of a request without value.
ReusesOwnValueOnly ==
    [][\A c \in Calls :
        (Arrives(c) /\ branch'[c] = "find")
            => \A d \in Calls :
                (branch[d] = "create" /\ index[d] = index'[c]) => value[d] = value[c]]_vars

\* The request of c is on the creation path with its node made and its
\* createNode not yet at the final Update or Delete.
Queued(c) == branch[c] = "create" /\ pc[c] \in {"get", "watching", "finish"}

\* C13 (a queued reservation does not expire): with every ttlKeepAlive running
\* when it is due and every Update reaching the store, the node of a request
\* on the creation path is never at the end of its ttl, from its AddChild until
\* the final Update or Delete, for every ttl of at least 1.
QueuedNeverExpires ==
    \A c \in Calls :
        (Queued(c) /\ ttl[c] >= 1 /\ index[c] \in Live) => ~Expired(nodes[index[c]])

\* A request waits in Client.Watch and a second has passed since the last
\* refresh of its node.
QueuedOverTime ==
    \E c \in Calls :
        /\ Queued(c) /\ pc[c] = "watching" /\ ttl[c] >= 2
        /\ index[c] \in Live
        /\ nodes[index[c]].age >= TicksPerSecond

====
